---- MODULE Spec2Model ----
(***************************************************************************)
(* Model of the FoodAnalyzer component of src/index.tsx: the two analysis  *)
(* pipelines (handleAnalyze for an image, handleTextAnalyze for a typed    *)
(* food name), the parse of the AI reply into a nutrition record, and the  *)
(* persistence of the record in the remote "history" table.                *)
(*                                                                         *)
(* Texts are sequences of lexemes.  The lexemes are the pieces of text the *)
(* parse distinguishes: the sentinel, the code fence, white space, digits, *)
(* the "Calories" label, and whole JSON values.                            *)
(***************************************************************************)
EXTENDS Integers, Sequences, FiniteSets, TLC

\* ------------------------------------------------------------------------
\* Bounds of the model
\* ------------------------------------------------------------------------
MaxLen == 4
MaxAttempts == 2
MaxReaders == 1
MaxCamCalls == 2
MaxCaptures == 1
MaxChunks == 2

\* ------------------------------------------------------------------------
\* Lexemes
\* ------------------------------------------------------------------------
SENTINEL == "---JSON---"
\* the code fence: three backquotes
FENCE == "<fence>"
JSONWORD == "json"
WS == " "
WORD == "a"
DIGIT == "7"
COLON == ":"
LABEL == "Calories"
LABELLOWER == "calories"
OBJFULL == "{\"calories\":105,\"protein\":1,\"fat\":0,\"carbs\":27}"
OBJNEG == "{\"calories\":-5}"
NULLLIT == "null"

Lexemes ==
    { SENTINEL, FENCE, JSONWORD, WS, WORD, DIGIT, COLON, LABEL, LABELLOWER,
      OBJFULL, OBJNEG, NULLLIT }

SeqsUpTo(S, n) == UNION { [1..k -> S] : k \in 0..n }

Texts == SeqsUpTo(Lexemes, MaxLen)

\* ------------------------------------------------------------------------
\* JavaScript values of the macros variable
\* ------------------------------------------------------------------------
MacroKeys == {"calories", "protein", "fat", "carbs"}

\* a field value: a number, undefined, or null
Num(n) == [t |-> "number", n |-> n]
UndefinedV == [t |-> "undefined", n |-> 0]
NullV == [t |-> "null", n |-> 0]

NoFields == [k \in {} |-> UndefinedV]

\* the value of macros: an object with some fields, null, or a bare number
JSObject(f) == [kind |-> "object", num |-> 0, fields |-> f]
JSNull == [kind |-> "null", num |-> 0, fields |-> NoFields]
JSNumber(n) == [kind |-> "number", num |-> n, fields |-> NoFields]

\* let macros = { calories: 0, protein: 0, fat: 0, carbs: 0 }
ZeroMacros == JSObject([k \in MacroKeys |-> Num(0)])

\* macros.<key>: undefined on a missing field and on a number; on null the
\* access throws a TypeError (PropertyAccessThrows)
GetField(m, key) ==
    IF m.kind = "object" /\ key \in DOMAIN m.fields
    THEN m.fields[key]
    ELSE UndefinedV

PropertyAccessThrows(m) == m.kind = "null"

\* ------------------------------------------------------------------------
\* String operations
\* ------------------------------------------------------------------------
RECURSIVE IndexOfFrom(_, _, _)
IndexOfFrom(s, tok, i) ==
    IF i > Len(s) THEN 0
    ELSE IF s[i] = tok THEN i
    ELSE IndexOfFrom(s, tok, i + 1)

\* a split that cuts at the first occurrence only
SplitAtFirst(s, sep) ==
    LET i == IndexOfFrom(s, sep, 1)
    IN  IF i = 0 THEN << s >>
        ELSE << SubSeq(s, 1, i - 1), SubSeq(s, i + 1, Len(s)) >>

\* String.prototype.split(separator): the pieces between the occurrences
RECURSIVE Split(_, _)
Split(s, sep) ==
    LET i == IndexOfFrom(s, sep, 1)
    IN  IF i = 0 THEN << s >>
        ELSE << SubSeq(s, 1, i - 1) >> \o Split(SubSeq(s, i + 1, Len(s)), sep)

RECURSIVE TrimStart(_)
TrimStart(s) ==
    IF s # << >> /\ Head(s) = WS THEN TrimStart(Tail(s)) ELSE s

RECURSIVE TrimEnd(_)
TrimEnd(s) ==
    IF s # << >> /\ s[Len(s)] = WS THEN TrimEnd(SubSeq(s, 1, Len(s) - 1)) ELSE s

\* String.prototype.trim()
Trim(s) == TrimEnd(TrimStart(s))

\* .replace(/FENCE json|FENCE/g, ""): every fence goes, and with it a "json"
\* that directly follows it
RECURSIVE StripFences(_)
StripFences(s) ==
    IF s = << >> THEN << >>
    ELSE IF Head(s) = FENCE
         THEN IF Len(s) >= 2 /\ s[2] = JSONWORD
              THEN StripFences(SubSeq(s, 3, Len(s)))
              ELSE StripFences(Tail(s))
         ELSE << Head(s) >> \o StripFences(Tail(s))

AllDigits(s) == \A i \in 1..Len(s) : s[i] = DIGIT

\* value of a run of decimal digits
RECURSIVE DigitsValue(_)
DigitsValue(s) ==
    IF s = << >> THEN 0
    ELSE 10 * DigitsValue(SubSeq(s, 1, Len(s) - 1)) + 7

\* JSON.parse: one JSON value, white space allowed around it; anything else
\* is a SyntaxError (ok = FALSE)
JSONParse(s) ==
    LET t == Trim(s)
    IN  IF t = << OBJFULL >>
        THEN [ok |-> TRUE,
              val |-> JSObject([calories |-> Num(105), protein |-> Num(1),
                                fat |-> Num(0), carbs |-> Num(27)])]
        ELSE IF t = << OBJNEG >>
        THEN [ok |-> TRUE, val |-> JSObject([calories |-> Num(0 - 5)])]
        ELSE IF t = << NULLLIT >>
        THEN [ok |-> TRUE, val |-> JSNull]
        ELSE IF t # << >> /\ AllDigits(t)
        THEN [ok |-> TRUE, val |-> JSNumber(DigitsValue(t))]
        ELSE [ok |-> FALSE, val |-> JSNull]

RECURSIVE SkipWS(_, _)
SkipWS(s, i) ==
    IF i <= Len(s) /\ s[i] = WS THEN SkipWS(s, i + 1) ELSE i

RECURSIVE DigitRunEnd(_, _)
DigitRunEnd(s, i) ==
    IF i <= Len(s) /\ s[i] = DIGIT THEN DigitRunEnd(s, i + 1) ELSE i

\* position of the digits that /Calories:?\s*(\d+)/i matches when the label
\* is at position i, or 0
DigitsAfterLabel(s, i) ==
    IF i > Len(s) \/ s[i] \notin {LABEL, LABELLOWER} THEN 0
    ELSE LET j == IF i + 1 <= Len(s) /\ s[i + 1] = COLON THEN i + 2 ELSE i + 1
             d == SkipWS(s, j)
         IN  IF d <= Len(s) /\ s[d] = DIGIT THEN d ELSE 0

RECURSIVE FirstCalMatch(_, _)
FirstCalMatch(s, i) ==
    IF i > Len(s) THEN 0
    ELSE IF DigitsAfterLabel(s, i) # 0 THEN DigitsAfterLabel(s, i)
    ELSE FirstCalMatch(s, i + 1)

\* fullText.match(/Calories:?\s*(\d+)/i) and parseInt(calMatch[1])
CalMatch(s) ==
    LET d == FirstCalMatch(s, 1)
    IN  IF d = 0 THEN [found |-> FALSE, n |-> 0]
        ELSE [found |-> TRUE,
              n |-> DigitsValue(SubSeq(s, d, DigitRunEnd(s, d) - 1))]

\* ------------------------------------------------------------------------
\* The parse of the grounded-analysis reply
\* ------------------------------------------------------------------------
\* AnalyzeParse with the summary trimmed also when the sentinel is missing
AnalyzeParseTrimsAlways(fullText) ==
    LET jsonSplit == Split(fullText, SENTINEL)
    IN  IF Len(jsonSplit) > 1
        THEN LET p == JSONParse(Trim(StripFences(jsonSplit[2])))
                 c == CalMatch(fullText)
             IN  [summary |-> Trim(jsonSplit[1]),
                  macros |-> IF p.ok THEN p.val
                             ELSE IF c.found
                                  THEN JSObject([ZeroMacros.fields
                                                   EXCEPT !["calories"] = Num(c.n)])
                                  ELSE ZeroMacros]
        ELSE [summary |-> Trim(fullText), macros |-> ZeroMacros]

\* handleAnalyze: structured parse, then the regex scan for the calories
AnalyzeParse(fullText) ==
    LET jsonSplit == Split(fullText, SENTINEL)
    IN  IF Len(jsonSplit) > 1
        THEN LET p == JSONParse(Trim(StripFences(jsonSplit[2])))
                 c == CalMatch(fullText)
             IN  [summary |-> Trim(jsonSplit[1]),
                  macros |-> IF p.ok THEN p.val
                             ELSE IF c.found
                                  THEN JSObject([ZeroMacros.fields
                                                   EXCEPT !["calories"] = Num(c.n)])
                                  ELSE ZeroMacros]
        ELSE [summary |-> fullText, macros |-> ZeroMacros]

\* TextParse with the fences left in the block it parses
TextParseKeepsFences(fullText) ==
    LET jsonSplit == Split(fullText, SENTINEL)
    IN  IF Len(jsonSplit) > 1
        THEN LET p == JSONParse(Trim(jsonSplit[2]))
             IN  [summary |-> Trim(jsonSplit[1]),
                  macros |-> IF p.ok THEN p.val ELSE ZeroMacros]
        ELSE [summary |-> fullText, macros |-> ZeroMacros]

\* handleTextAnalyze: structured parse only
TextParse(fullText) ==
    LET jsonSplit == Split(fullText, SENTINEL)
    IN  IF Len(jsonSplit) > 1
        THEN LET p == JSONParse(Trim(StripFences(jsonSplit[2])))
             IN  [summary |-> Trim(jsonSplit[1]),
                  macros |-> IF p.ok THEN p.val ELSE ZeroMacros]
        ELSE [summary |-> fullText, macros |-> ZeroMacros]

\* ------------------------------------------------------------------------
\* Replies of the AI service
\* ------------------------------------------------------------------------
\* a reply of generateContent: the call rejects ("error"), or it resolves
\* with a response that has no candidate, a candidate without a text part,
\* or a first text part
Rejected == [shape |-> "error", text |-> << >>, chunks |-> << >>]
NoCandidates == [shape |-> "noCandidates", text |-> << >>, chunks |-> << >>]
NoTextPart == [shape |-> "noTextPart", text |-> << >>, chunks |-> << >>]
TextReply(t, c) == [shape |-> "text", text |-> t, chunks |-> c]

WebChunk == [hasWeb |-> TRUE, uri |-> "u1", title |-> "t1"]
OtherChunk == [hasWeb |-> FALSE, uri |-> "", title |-> ""]
WebChunk2 == [hasWeb |-> TRUE, uri |-> "u2", title |-> "t2"]

\* groundingChunks of a reply: at most MaxChunks chunks
ChunkLists == SeqsUpTo({ WebChunk, WebChunk2, OtherChunk }, MaxChunks)

IdentifyReplies ==
    { Rejected, NoCandidates, NoTextPart }
    \cup { TextReply(t, << >>) : t \in { << >>, << WS >>, << WS, WORD, WS >> } }

AnalysisReplies ==
    { Rejected,
      TextReply(<< WORD, SENTINEL, OBJFULL >>, << OtherChunk, WebChunk >>),
      TextReply(<< SENTINEL, NULLLIT >>, << >>) }

\* response.candidates?.[0]?.content?.parts?.[0]?.text
HasFirstText(r) == r.shape = "text"

UNKNOWNFOOD == << "Unknown food" >>

\* FoodNameOf without the trim
FoodNameOfUntrimmed(r) ==
    IF HasFirstText(r) /\ r.text # << >> THEN r.text
    ELSE UNKNOWNFOOD

\* identifyResponse...text?.trim() || "Unknown food"
FoodNameOf(r) ==
    IF HasFirstText(r) /\ Trim(r.text) # << >> THEN Trim(r.text)
    ELSE UNKNOWNFOOD

\* analysisResponse...text || ""
FullTextOf(r) == IF HasFirstText(r) THEN r.text ELSE << >>

\* groundingChunks.map((c) => c.web).filter(Boolean)
RECURSIVE SourcesOf(_)
SourcesOf(chunks) ==
    IF chunks = << >> THEN << >>
    ELSE IF Head(chunks).hasWeb
         THEN << [uri |-> Head(chunks).uri, title |-> Head(chunks).title] >>
              \o SourcesOf(Tail(chunks))
         ELSE SourcesOf(Tail(chunks))

\* ------------------------------------------------------------------------
\* Records
\* ------------------------------------------------------------------------
NoFile == "null"
NoPreview == "null"
NoImage == "undefined"
Files == {"f1"}
DataUrl(f) ==
    IF f = "f1" THEN "data:f1" ELSE IF f = "f2" THEN "data:f2" ELSE "data:other"

Null == [kind |-> "null"]

\* const newAnalysis: AnalysisResult = { name, summary, macros, imageUrl, sources }
NewAnalysis(name, parsed, imageUrl, sources) ==
    [kind |-> "record", id |-> 0, name |-> name, summary |-> parsed.summary,
     macros |-> parsed.macros, imageUrl |-> imageUrl, timestamp |-> 0,
     sources |-> sources]

\* the argument of insert; an undefined field is not sent, the column is NULL
Column(v) == IF v.t = "undefined" THEN NullV ELSE v

InsertPayload(name, parsed, imageUrl) ==
    [name |-> name, summary |-> parsed.summary, image_url |-> imageUrl,
     calories |-> Column(GetField(parsed.macros, "calories")),
     protein |-> Column(GetField(parsed.macros, "protein")),
     fat |-> Column(GetField(parsed.macros, "fat")),
     carbs |-> Column(GetField(parsed.macros, "carbs"))]

NoPayload ==
    [name |-> << >>, summary |-> << >>, image_url |-> NoImage,
     calories |-> NullV, protein |-> NullV, fat |-> NullV, carbs |-> NullV]

\* the row the store keeps: the payload with the id and created_at it assigns
StoredRow(payload, n) ==
    [id |-> n, created_at |-> n, name |-> payload.name,
     summary |-> payload.summary, image_url |-> payload.image_url,
     calories |-> payload.calories, protein |-> payload.protein,
     fat |-> payload.fat, carbs |-> payload.carbs]

HISTORYLIMIT == 20

\* .order("created_at", { ascending: false }).limit(20) on a table whose rows
\* are kept in creation order
RECURSIVE NewestFirst(_, _)
NewestFirst(rows, n) ==
    IF n = 0 \/ rows = << >> THEN << >>
    ELSE << rows[Len(rows)] >> \o NewestFirst(SubSeq(rows, 1, Len(rows) - 1), n - 1)

\* the query without .limit(20)
SelectRecentUnlimited(rows) == NewestFirst(rows, Len(rows))

SelectRecent(rows) == NewestFirst(rows, HISTORYLIMIT)

\* data.map((item) => ({ id, name, summary, imageUrl, macros, timestamp }))
HistoryEntry(item) ==
    [kind |-> "record", id |-> item.id, name |-> item.name,
     summary |-> item.summary,
     macros |-> JSObject([calories |-> item.calories, protein |-> item.protein,
                          fat |-> item.fat, carbs |-> item.carbs]),
     imageUrl |-> item.image_url, timestamp |-> item.created_at,
     sources |-> << >>]

MapHistory(data) == [i \in 1..Len(data) |-> HistoryEntry(data[i])]

\* ------------------------------------------------------------------------
\* State
\* ------------------------------------------------------------------------
VARIABLES
    file,          \* useState<File | null>
    imagePreview,  \* useState<string | null>
    searchText,    \* useState<string>
    loading,       \* useState(false)
    loadingStep,   \* useState("")
    result,        \* useState<AnalysisResult | null>
    history,       \* useState<AnalysisResult[]>
    readers,       \* FileReaders of handleFileSelect that have not ended
    attempts,      \* the invocations of handleAnalyze and handleTextAnalyze
    lastReturn,    \* what the invocation that returned last has done
    startupQuery,  \* the loadHistory call of the startup effect
    store,         \* the rows of the remote table "history"
    alerts,        \* number of alert() dialogs shown
    pText,         \* SpecParse: the reply text
    pChunks,       \* SpecParse: the groundingChunks of the reply
    pOut,          \* SpecParse: the record built from pText and pChunks
    pStored,       \* SpecParse: the history entry of that record once stored
    stream,        \* useState<MediaStream | null>: 0, or the stream held
    cameraActive,  \* useState(false)
    mounted,       \* the component is rendered
    mediaSupported,\* navigator.mediaDevices?.getUserMedia exists
    camCalls,      \* the invocations of startCamera
    captures,      \* the invocations of captureFromCamera
    stops          \* per acquired stream, how often its tracks were stopped

vars ==
    << file, imagePreview, searchText, loading, loadingStep, result, history,
       readers, attempts, lastReturn, startupQuery, store, alerts, pText,
       pChunks, pOut, pStored, stream, cameraActive, mounted, mediaSupported, camCalls,
       captures, stops >>

uiVars == << file, imagePreview, searchText, result, readers >>
parseVars == << pText, pChunks, pOut, pStored >>
camVars ==
    << stream, cameraActive, mounted, mediaSupported, camCalls, captures,
       stops >>

NoStep == [label |-> "", name |-> << >>]
Step(label, name) == [label |-> label, name |-> name]

QIdle == [st |-> "idle", error |-> FALSE, data |-> << >>]
QSent == [st |-> "sent", error |-> FALSE, data |-> << >>]
QExecuted(err, rows) == [st |-> "executed", error |-> err, data |-> rows]

NoOut == [pipeline |-> "none", rec |-> Null]

SearchInputs == { << >>, << WS, WORD >> }

\* an invocation of a handler: where it is suspended (pc), what its closure
\* holds, and what it has done so far; identifyResponse is kept until its
\* last use, the grounded-analysis call it leads to having settled
Attempt(kind, pc, f, preview) ==
    [kind |-> kind, pc |-> pc, file |-> f, imagePreview |-> preview,
     identifyResponse |-> NoCandidates, foodName |-> << >>,
     payload |-> NoPayload, query |-> QIdle,
     aiCalls |-> 0, alerted |-> 0, resultSet |-> FALSE,
     inserts |-> 0, queries |-> 0, how |-> ""]

\* an invocation that has returned: its closure is gone
Gone == Attempt("gone", "done", NoFile, NoImage)

NoReturn == Attempt("none", "done", NoFile, NoImage)

\* what an invocation did, as it returns
Returned(at, how) ==
    [at EXCEPT !.pc = "done", !.file = NoFile, !.imagePreview = NoImage,
               !.identifyResponse = NoCandidates, !.foodName = << >>,
               !.payload = NoPayload, !.query = QIdle, !.how = how]

\* no stream, no camera, no invocation of the camera handlers
CameraOff ==
    /\ stream = 0
    /\ cameraActive = FALSE
    /\ mounted = TRUE
    /\ camCalls = << >>
    /\ captures = << >>
    /\ stops = << >>

Init ==
    /\ file = NoFile
    /\ imagePreview = NoPreview
    /\ searchText = << >>
    /\ loading = FALSE
    /\ loadingStep = NoStep
    /\ result = Null
    /\ history = << >>
    /\ readers = << >>
    /\ attempts = << >>
    /\ lastReturn = NoReturn
    /\ startupQuery = QSent
    /\ store = << >>
    /\ alerts = 0
    /\ pText = << >>
    /\ pChunks = << >>
    /\ pOut = NoOut
    /\ pStored = Null
    /\ CameraOff
    /\ mediaSupported = TRUE

\* ------------------------------------------------------------------------
\* Capture
\* ------------------------------------------------------------------------
\* the upload view is rendered while result is null; its file input is
\* disabled while loading
HandleFileSelect(f) ==
    /\ result = Null
    /\ ~loading
    /\ Len(readers) < MaxReaders
    /\ file' = f
    /\ readers' = Append(readers, f)
    /\ UNCHANGED << imagePreview, searchText, loading, loadingStep, result,
                    history, attempts, lastReturn, startupQuery, store, alerts,
                    parseVars, camVars >>

\* reader.onloadend of handleFileSelect; reader.result is null after an error
ReaderLoadEnd(i, ok) ==
    /\ i \in 1..Len(readers)
    /\ imagePreview' = IF ok THEN DataUrl(readers[i]) ELSE NoPreview
    /\ result' = Null
    /\ readers' = SubSeq(readers, 1, i - 1) \o SubSeq(readers, i + 1, Len(readers))
    /\ UNCHANGED << file, searchText, loading, loadingStep, history, attempts,
                    lastReturn, startupQuery, store, alerts, parseVars, camVars >>

\* onChange of the search box
SetSearchText(t) ==
    /\ result = Null
    /\ searchText # t
    /\ searchText' = t
    /\ UNCHANGED << file, imagePreview, loading, loadingStep, result, history,
                    readers, attempts, lastReturn, startupQuery, store, alerts,
                    parseVars, camVars >>

\* ------------------------------------------------------------------------
\* handleAnalyze
\* ------------------------------------------------------------------------
\* a finally that leaves the loading indicator on
FinallyKeepsLoading(a, did, how) ==
    /\ attempts' = [attempts EXCEPT ![a] = Gone]
    /\ lastReturn' = Returned(did, how)
    /\ loading' = loading
    /\ loadingStep' = loadingStep

\* finally: setLoading(false), setLoadingStep(""), and the handler returns
Finally(a, did, how) ==
    /\ attempts' = [attempts EXCEPT ![a] = Gone]
    /\ lastReturn' = Returned(did, how)
    /\ loading' = FALSE
    /\ loadingStep' = NoStep

\* Catch that only logs
CatchLogsOnly(a, did, how) ==
    /\ alerts' = alerts
    /\ Finally(a, did, how)

\* catch: one alert, then finally
Catch(a, did, how) ==
    /\ alerts' = alerts + 1
    /\ Finally(a, [did EXCEPT !.alerted = @ + 1], how)

\* Start Analysis is rendered while result is null, loading is false and
\* imagePreview is set; the handler returns at once without a file
HandleAnalyze ==
    /\ result = Null
    /\ ~loading
    /\ file # NoFile /\ imagePreview # NoPreview
    /\ Len(attempts) < MaxAttempts
    /\ loading' = TRUE
    /\ loadingStep' = Step("Identifying food...", << >>)
    /\ attempts' = Append(attempts, Attempt("image", "read", file, imagePreview))
    /\ UNCHANGED << uiVars, history, lastReturn, startupQuery, store, alerts,
                    parseVars, camVars >>

\* await fileToGenerativePart(file) settles; on success the identification
\* call is issued
ReadFileSettles(a, ok) ==
    /\ a \in 1..Len(attempts)
    /\ attempts[a].pc = "read"
    /\ IF ok
       THEN /\ attempts' = [attempts EXCEPT ![a].pc = "identify",
                                            ![a].aiCalls = @ + 1]
            /\ UNCHANGED << loading, loadingStep, alerts, lastReturn >>
       ELSE Catch(a, attempts[a], "readFailed")
    /\ UNCHANGED << uiVars, history, startupQuery, store, parseVars, camVars >>

\* an identification step that goes on to the grounded-analysis call after
\* a failed identification call
IdentifySettlesIgnoresFailure(a, r) ==
    /\ a \in 1..Len(attempts)
    /\ attempts[a].pc = "identify"
    /\ attempts' = [attempts EXCEPT ![a].pc = "research",
                                    ![a].identifyResponse = r,
                                    ![a].foodName = UNKNOWNFOOD,
                                    ![a].aiCalls = @ + 1]
    /\ loadingStep' = Step("Analyzing ...", UNKNOWNFOOD)
    /\ UNCHANGED << loading, alerts, lastReturn >>
    /\ UNCHANGED << uiVars, history, startupQuery, store, parseVars, camVars >>

\* the identification call settles; on success the grounded-analysis call
\* is issued with the food name
IdentifySettles(a, r) ==
    /\ a \in 1..Len(attempts)
    /\ attempts[a].pc = "identify"
    /\ IF r.shape = "error"
       THEN Catch(a, attempts[a], "aiFailed")
       ELSE /\ attempts' = [attempts EXCEPT ![a].pc = "research",
                                            ![a].identifyResponse = r,
                                            ![a].foodName = FoodNameOf(r),
                                            ![a].aiCalls = @ + 1]
            /\ loadingStep' = Step("Analyzing ...", FoodNameOf(r))
            /\ UNCHANGED << loading, alerts, lastReturn >>
    /\ UNCHANGED << uiVars, history, startupQuery, store, parseVars, camVars >>

\* what handleAnalyze parses out of each reply that carries a text
ParsedAnalysis ==
    [r \in {q \in AnalysisReplies : q.shape # "error"} |->
        AnalyzeParse(FullTextOf(r))]

\* the grounded-analysis call of handleAnalyze settles: parse, setResult,
\* then the insert is issued; reading macros.calories of null throws
AnalysisSettles(a, r) ==
    /\ a \in 1..Len(attempts)
    /\ attempts[a].kind = "image"
    /\ attempts[a].pc = "research"
    /\ IF r.shape = "error"
       THEN /\ Catch(a, attempts[a], "aiFailed")
            /\ UNCHANGED result
       ELSE LET parsed == ParsedAnalysis[r]
                name == attempts[a].foodName
                preview == attempts[a].imagePreview
            IN  /\ result' = NewAnalysis(name, parsed, preview, SourcesOf(r.chunks))
                /\ IF PropertyAccessThrows(parsed.macros)
                   THEN Catch(a, [attempts[a] EXCEPT !.resultSet = TRUE],
                              "typeError")
                   ELSE /\ attempts' =
                              [attempts EXCEPT
                                 ![a].pc = "insert",
                                 ![a].identifyResponse = NoCandidates,
                                 ![a].resultSet = TRUE,
                                 ![a].inserts = @ + 1,
                                 ![a].payload = InsertPayload(name, parsed, preview)]
                        /\ UNCHANGED << loading, loadingStep, alerts, lastReturn >>
    /\ UNCHANGED << file, imagePreview, searchText, readers, history,
                    startupQuery, store, parseVars, camVars >>

\* InsertSettles that reloads the history after a failed insert too
InsertSettlesAlwaysReloads(a, ok) ==
    /\ a \in 1..Len(attempts)
    /\ attempts[a].pc = "insert"
    /\ store' = IF ok
                THEN Append(store, StoredRow(attempts[a].payload, Len(store) + 1))
                ELSE store
    /\ attempts' = [attempts EXCEPT ![a].pc = "reload",
                                    ![a].query = QSent,
                                    ![a].queries = @ + 1]
    /\ UNCHANGED << loading, loadingStep, lastReturn >>
    /\ UNCHANGED << uiVars, history, startupQuery, alerts, parseVars, camVars >>

\* the insert settles: an error is logged only; after a success loadHistory
\* is called
InsertSettles(a, ok) ==
    /\ a \in 1..Len(attempts)
    /\ attempts[a].pc = "insert"
    /\ IF ok
       THEN /\ store' = Append(store, StoredRow(attempts[a].payload, Len(store) + 1))
            /\ attempts' = [attempts EXCEPT ![a].pc = "reload",
                                            ![a].query = QSent,
                                            ![a].queries = @ + 1]
            /\ UNCHANGED << loading, loadingStep, lastReturn >>
       ELSE /\ Finally(a, attempts[a], "saveError")
            /\ UNCHANGED store
    /\ UNCHANGED << uiVars, history, startupQuery, alerts, parseVars, camVars >>

\* ------------------------------------------------------------------------
\* loadHistory
\* ------------------------------------------------------------------------
\* the store answers a select-recent query from the rows it holds then
StoreAnswersStartup(err) ==
    /\ startupQuery.st = "sent"
    /\ startupQuery' = QExecuted(err, IF err THEN << >> ELSE SelectRecent(store))
    /\ UNCHANGED << file, imagePreview, searchText, loading, loadingStep,
                    result, history, readers, attempts, lastReturn, store,
                    alerts, parseVars, camVars >>

StoreAnswersReload(a, err) ==
    /\ a \in 1..Len(attempts)
    /\ attempts[a].pc = "reload"
    /\ attempts[a].query.st = "sent"
    /\ attempts' = [attempts EXCEPT
                      ![a].query = QExecuted(err, IF err THEN << >>
                                                  ELSE SelectRecent(store))]
    /\ UNCHANGED << file, imagePreview, searchText, loading, loadingStep,
                    result, history, readers, lastReturn, startupQuery, store,
                    alerts, parseVars, camVars >>

\* a loadHistory that empties the list when the query reports an error
LoadHistoryClearsOnError(q) ==
    history' = IF q.error THEN << >> ELSE MapHistory(q.data)

\* loadHistory after its await: return on error, else setHistory
LoadHistoryResumes(q) ==
    history' = IF q.error THEN history ELSE MapHistory(q.data)

\* loadHistory of the startup effect
StartupLoadHistory ==
    /\ startupQuery.st = "executed"
    /\ LoadHistoryResumes(startupQuery)
    /\ startupQuery' = QIdle
    /\ UNCHANGED << file, imagePreview, searchText, loading, loadingStep,
                    result, readers, attempts, lastReturn, store, alerts,
                    parseVars, camVars >>

\* await loadHistory() of handleAnalyze, then finally
ReloadSettles(a) ==
    /\ a \in 1..Len(attempts)
    /\ attempts[a].pc = "reload"
    /\ attempts[a].query.st = "executed"
    /\ LoadHistoryResumes(attempts[a].query)
    /\ Finally(a, attempts[a], "saved")
    /\ UNCHANGED << uiVars, startupQuery, store, alerts, parseVars, camVars >>

\* ------------------------------------------------------------------------
\* handleTextAnalyze
\* ------------------------------------------------------------------------
\* Search and Enter are rendered whenever the upload view is; the handler
\* returns at once on an empty or blank searchText
HandleTextAnalyze ==
    /\ result = Null
    /\ Trim(searchText) # << >>
    /\ Len(attempts) < MaxAttempts
    /\ loading' = TRUE
    /\ loadingStep' = Step("Analyzing text prompt...", << >>)
    /\ attempts' = Append(attempts,
                     [Attempt("text", "research", NoFile, NoImage) EXCEPT
                        !.foodName = Trim(searchText),
                        !.aiCalls = 1])
    /\ UNCHANGED << uiVars, history, lastReturn, startupQuery, store, alerts,
                    parseVars, camVars >>

\* what handleTextAnalyze parses out of each reply that carries a text
ParsedText ==
    [r \in {q \in AnalysisReplies : q.shape # "error"} |->
        TextParse(FullTextOf(r))]

\* the grounded-analysis call of handleTextAnalyze settles
TextAnalysisSettles(a, r) ==
    /\ a \in 1..Len(attempts)
    /\ attempts[a].kind = "text"
    /\ attempts[a].pc = "research"
    /\ IF r.shape = "error"
       THEN /\ Catch(a, attempts[a], "aiFailed")
            /\ UNCHANGED result
       ELSE /\ result' = NewAnalysis(attempts[a].foodName,
                                     ParsedText[r], NoImage, << >>)
            /\ Finally(a, [attempts[a] EXCEPT !.resultSet = TRUE], "shown")
            /\ UNCHANGED alerts
    /\ UNCHANGED << file, imagePreview, searchText, readers, history,
                    startupQuery, store, parseVars, camVars >>

\* ------------------------------------------------------------------------
\* Result view and history list
\* ------------------------------------------------------------------------
\* a Scan Next that leaves the preview in place
ScanNextKeepsPreview ==
    /\ result # Null
    /\ result' = Null
    /\ file' = NoFile
    /\ imagePreview' = imagePreview
    /\ UNCHANGED << searchText, loading, loadingStep, history, readers,
                    attempts, lastReturn, startupQuery, store, alerts,
                    parseVars, camVars >>

\* Scan Next
ScanNext ==
    /\ result # Null
    /\ result' = Null
    /\ file' = NoFile
    /\ imagePreview' = NoPreview
    /\ UNCHANGED << searchText, loading, loadingStep, history, readers,
                    attempts, lastReturn, startupQuery, store, alerts,
                    parseVars, camVars >>

\* a click that also clears the selected file and its preview
HistoryClickResets(i) ==
    /\ i \in 1..Len(history)
    /\ result # history[i]
    /\ result' = history[i]
    /\ file' = NoFile
    /\ imagePreview' = NoPreview
    /\ UNCHANGED << searchText, loading, loadingStep,
                    history, readers, attempts, lastReturn, startupQuery,
                    store, alerts, parseVars, camVars >>

\* onClick of a history entry
HistoryClick(i) ==
    /\ i \in 1..Len(history)
    /\ result # history[i]
    /\ result' = history[i]
    /\ UNCHANGED << file, imagePreview, searchText, loading, loadingStep,
                    history, readers, attempts, lastReturn, startupQuery,
                    store, alerts, parseVars, camVars >>

\* ------------------------------------------------------------------------
\* Specification of the component
\* ------------------------------------------------------------------------
Next ==
    \/ \E f \in Files : HandleFileSelect(f)
    \/ \E i \in 1..MaxReaders, ok \in BOOLEAN : ReaderLoadEnd(i, ok)
    \/ \E t \in SearchInputs : SetSearchText(t)
    \/ HandleAnalyze
    \/ \E a \in 1..MaxAttempts, ok \in BOOLEAN : ReadFileSettles(a, ok)
    \/ \E a \in 1..MaxAttempts, r \in IdentifyReplies : IdentifySettles(a, r)
    \/ \E a \in 1..MaxAttempts, r \in AnalysisReplies : AnalysisSettles(a, r)
    \/ \E a \in 1..MaxAttempts, ok \in BOOLEAN : InsertSettles(a, ok)
    \/ \E err \in BOOLEAN : StoreAnswersStartup(err)
    \/ \E a \in 1..MaxAttempts, err \in BOOLEAN : StoreAnswersReload(a, err)
    \/ StartupLoadHistory
    \/ \E a \in 1..MaxAttempts : ReloadSettles(a)
    \/ HandleTextAnalyze
    \/ \E a \in 1..MaxAttempts, r \in AnalysisReplies : TextAnalysisSettles(a, r)
    \/ ScanNext
    \/ \E i \in 1..HISTORYLIMIT : HistoryClick(i)

Spec == Init /\ [][Next]_vars

\* ------------------------------------------------------------------------
\* Camera
\* ------------------------------------------------------------------------
\* the File that captureFromCamera builds from the canvas
CaptureFile == "capture"

\* one invocation of startCamera: s is the stream it was given (0: none)
CamCall(pc, s, didSet, alerted) ==
    [pc |-> pc, s |-> s, didSet |-> didSet, alerted |-> alerted]

\* <video ref={videoRef}> is rendered, so videoRef.current is not null
VideoMounted ==
    /\ mounted
    /\ result = Null
    /\ ~loading
    /\ imagePreview = NoPreview
    /\ cameraActive

\* stream.getTracks().forEach((t) => t.stop()) on the stream s of a closure
StopTracks(s) ==
    IF s # 0 THEN [stops EXCEPT ![s] = @ + 1] ELSE stops

\* Open Camera: startCamera up to its await
StartCamera ==
    /\ mounted
    /\ result = Null
    /\ ~cameraActive
    /\ Len(camCalls) < MaxCamCalls
    /\ IF ~mediaSupported
       THEN /\ alerts' = alerts + 1
            /\ camCalls' = Append(camCalls, CamCall("done", 0, FALSE, TRUE))
       ELSE /\ camCalls' = Append(camCalls, CamCall("acquire", 0, FALSE, FALSE))
            /\ UNCHANGED alerts
    /\ UNCHANGED << file, imagePreview, searchText, loading, loadingStep,
                    result, history, readers, attempts, lastReturn,
                    startupQuery, store, parseVars, stream, cameraActive,
                    mounted, mediaSupported, captures, stops >>

\* getUserMedia settles: setStream, setCameraActive, and play() when the
\* video element exists; a rejection goes to catch
CameraSettles(c, ok) ==
    /\ c \in 1..Len(camCalls)
    /\ camCalls[c].pc = "acquire"
    /\ IF ok
       THEN /\ stops' = Append(stops, 0)
            /\ stream' = IF mounted THEN Len(stops) + 1 ELSE stream
            /\ cameraActive' = IF mounted THEN TRUE ELSE cameraActive
            /\ camCalls' = [camCalls EXCEPT
                              ![c] = CamCall(IF VideoMounted THEN "play" ELSE "done",
                                             Len(stops) + 1, TRUE, FALSE)]
            /\ UNCHANGED alerts
       ELSE /\ alerts' = alerts + 1
            /\ camCalls' = [camCalls EXCEPT ![c].pc = "done", ![c].alerted = TRUE]
            /\ UNCHANGED << stops, stream, cameraActive >>
    /\ UNCHANGED << file, imagePreview, searchText, loading, loadingStep,
                    result, history, readers, attempts, lastReturn,
                    startupQuery, store, parseVars, mounted, mediaSupported,
                    captures >>

\* await videoRef.current.play() settles; a rejection goes to catch
PlaySettles(c, ok) ==
    /\ c \in 1..Len(camCalls)
    /\ camCalls[c].pc = "play"
    /\ IF ok
       THEN /\ camCalls' = [camCalls EXCEPT ![c].pc = "done"]
            /\ UNCHANGED alerts
       ELSE /\ alerts' = alerts + 1
            /\ camCalls' = [camCalls EXCEPT ![c].pc = "done", ![c].alerted = TRUE]
    /\ UNCHANGED << file, imagePreview, searchText, loading, loadingStep,
                    result, history, readers, attempts, lastReturn,
                    startupQuery, store, parseVars, stream, cameraActive,
                    mounted, mediaSupported, captures, stops >>

\* Close: stopCamera of the current render
StopCamera ==
    /\ mounted
    /\ result = Null
    /\ cameraActive
    /\ stops' = StopTracks(stream)
    /\ stream' = 0
    /\ cameraActive' = FALSE
    /\ UNCHANGED << file, imagePreview, searchText, loading, loadingStep,
                    result, history, readers, attempts, lastReturn,
                    startupQuery, store, alerts, parseVars, mounted,
                    mediaSupported, camCalls, captures >>

\* Capture: captureFromCamera up to its await; the stream of this render
\* stays in the closure
CaptureFromCamera ==
    /\ VideoMounted
    /\ Len(captures) < MaxCaptures
    /\ imagePreview' = DataUrl(CaptureFile)
    /\ captures' = Append(captures, [pc |-> "blob", stream |-> stream])
    /\ UNCHANGED << file, searchText, loading, loadingStep, result, history,
                    readers, attempts, lastReturn, startupQuery, store,
                    alerts, parseVars, stream, cameraActive, mounted,
                    mediaSupported, camCalls, stops >>

\* fetch(dataUrl) and blob() settle: setFile, setResult(null), stopCamera of
\* the render in which Capture was clicked; a rejection ends the handler
CaptureBlobSettles(k, ok) ==
    /\ k \in 1..Len(captures)
    /\ captures[k].pc = "blob"
    /\ IF ok
       THEN /\ captures' = [captures EXCEPT ![k].pc = "done"]
            /\ file' = IF mounted THEN CaptureFile ELSE file
            /\ result' = IF mounted THEN Null ELSE result
            /\ stops' = StopTracks(captures[k].stream)
            /\ stream' = IF mounted THEN 0 ELSE stream
            /\ cameraActive' = IF mounted THEN FALSE ELSE cameraActive
       ELSE /\ captures' = [captures EXCEPT ![k].pc = "failed"]
            /\ UNCHANGED << file, result, stops, stream, cameraActive >>
    /\ UNCHANGED << imagePreview, searchText, loading, loadingStep, history,
                    readers, attempts, lastReturn, startupQuery, store,
                    alerts, parseVars, mounted, mediaSupported, camCalls >>

\* the root is torn down: the only effect has no cleanup function
Unmount ==
    /\ mounted
    /\ mounted' = FALSE
    /\ UNCHANGED << file, imagePreview, searchText, loading, loadingStep,
                    result, history, readers, attempts, lastReturn,
                    startupQuery, store, alerts, parseVars, stream,
                    cameraActive, mediaSupported, camCalls, captures, stops >>

\* ------------------------------------------------------------------------
\* Specification of the camera handlers, in a browser with or without
\* navigator.mediaDevices.getUserMedia
\* ------------------------------------------------------------------------
InitCamera ==
    /\ file = NoFile
    /\ imagePreview = NoPreview
    /\ searchText = << >>
    /\ loading = FALSE
    /\ loadingStep = NoStep
    /\ result = Null
    /\ history = << >>
    /\ readers = << >>
    /\ attempts = << >>
    /\ lastReturn = NoReturn
    /\ startupQuery = QSent
    /\ store = << >>
    /\ alerts = 0
    /\ pText = << >>
    /\ pChunks = << >>
    /\ pOut = NoOut
    /\ pStored = Null
    /\ CameraOff
    /\ mediaSupported \in BOOLEAN

NextCamera ==
    \/ StartCamera
    \/ \E c \in 1..MaxCamCalls, ok \in BOOLEAN : CameraSettles(c, ok)
    \/ \E c \in 1..MaxCamCalls, ok \in BOOLEAN : PlaySettles(c, ok)
    \/ StopCamera
    \/ CaptureFromCamera
    \/ \E k \in 1..MaxCaptures, ok \in BOOLEAN : CaptureBlobSettles(k, ok)
    \/ Unmount

SpecCamera == InitCamera /\ [][NextCamera]_vars

\* ------------------------------------------------------------------------
\* Specification of the ways an image gets into file and imagePreview (two
\* files to choose from, and the camera) and of the image attempt started
\* on them, up to its insert
\* ------------------------------------------------------------------------
SelectableFiles == { "f1", "f2" }

InitSelect ==
    /\ file = NoFile
    /\ imagePreview = NoPreview
    /\ searchText = << >>
    /\ loading = FALSE
    /\ loadingStep = NoStep
    /\ result = Null
    /\ history = << >>
    /\ readers = << >>
    /\ attempts = << >>
    /\ lastReturn = NoReturn
    /\ startupQuery = QIdle
    /\ store = << >>
    /\ alerts = 0
    /\ pText = << >>
    /\ pChunks = << >>
    /\ pOut = NoOut
    /\ pStored = Null
    /\ CameraOff
    /\ mediaSupported = TRUE

\* a reply of the identification call with a food name, and a well-formed
\* reply of the grounded-analysis call
NamedReply == TextReply(<< WS, WORD, WS >>, << >>)
GoodReply == TextReply(<< WORD, SENTINEL, OBJFULL >>, << OtherChunk, WebChunk >>)

\* every awaited call up to the insert resolves; the insert stays pending
NextSelect ==
    \/ \E f \in SelectableFiles : HandleFileSelect(f)
    \/ \E i \in 1..MaxReaders : ReaderLoadEnd(i, TRUE)
    \/ StartCamera
    \/ \E c \in 1..MaxCamCalls : CameraSettles(c, TRUE)
    \/ CaptureFromCamera
    \/ \E k \in 1..MaxCaptures : CaptureBlobSettles(k, TRUE)
    \/ HandleAnalyze
    \/ \E a \in 1..MaxAttempts : ReadFileSettles(a, TRUE)
    \/ \E a \in 1..MaxAttempts : IdentifySettles(a, NamedReply)
    \/ \E a \in 1..MaxAttempts : AnalysisSettles(a, GoodReply)

SpecSelect == InitSelect /\ [][NextSelect]_vars

\* ------------------------------------------------------------------------
\* Specification of the history queries when nothing fails: every awaited
\* call resolves and every query is answered without an error, the replies
\* arriving in any order
\* ------------------------------------------------------------------------
NextRefresh ==
    \/ \E f \in Files : HandleFileSelect(f)
    \/ \E i \in 1..MaxReaders : ReaderLoadEnd(i, TRUE)
    \/ HandleAnalyze
    \/ \E a \in 1..MaxAttempts : ReadFileSettles(a, TRUE)
    \/ \E a \in 1..MaxAttempts : IdentifySettles(a, NamedReply)
    \/ \E a \in 1..MaxAttempts : AnalysisSettles(a, GoodReply)
    \/ \E a \in 1..MaxAttempts : InsertSettles(a, TRUE)
    \/ StoreAnswersStartup(FALSE)
    \/ \E a \in 1..MaxAttempts : StoreAnswersReload(a, FALSE)
    \/ StartupLoadHistory
    \/ \E a \in 1..MaxAttempts : ReloadSettles(a)
    \/ ScanNext

SpecRefresh == Init /\ [][NextRefresh]_vars

\* ------------------------------------------------------------------------
\* Specification of the component on a table that already holds
\* HISTORYLIMIT rows of earlier sessions, with a food name typed in the
\* search box
\* ------------------------------------------------------------------------
OldPayload ==
    [NoPayload EXCEPT !.name = << WORD >>, !.summary = << WORD >>,
                      !.image_url = DataUrl("f1"),
                      !.calories = Num(105), !.protein = Num(1),
                      !.fat = Num(0), !.carbs = Num(27)]

OldRows(n) == [i \in 1..n |-> StoredRow(OldPayload, i)]

InitHistory ==
    /\ file = NoFile
    /\ imagePreview = NoPreview
    /\ searchText = << WS, WORD >>
    /\ loading = FALSE
    /\ loadingStep = NoStep
    /\ result = Null
    /\ history = << >>
    /\ readers = << >>
    /\ attempts = << >>
    /\ lastReturn = NoReturn
    /\ startupQuery = QSent
    /\ store = OldRows(HISTORYLIMIT)
    /\ alerts = 0
    /\ pText = << >>
    /\ pChunks = << >>
    /\ pOut = NoOut
    /\ pStored = Null
    /\ CameraOff
    /\ mediaSupported = TRUE

\* the handlers that read or write the table, and what lets them start
NextHistory ==
    \/ \E f \in Files : HandleFileSelect(f)
    \/ \E i \in 1..MaxReaders, ok \in BOOLEAN : ReaderLoadEnd(i, ok)
    \/ HandleAnalyze
    \/ \E a \in 1..MaxAttempts, ok \in BOOLEAN : ReadFileSettles(a, ok)
    \/ \E a \in 1..MaxAttempts, r \in IdentifyReplies : IdentifySettles(a, r)
    \/ \E a \in 1..MaxAttempts, r \in AnalysisReplies : AnalysisSettles(a, r)
    \/ \E a \in 1..MaxAttempts, ok \in BOOLEAN : InsertSettles(a, ok)
    \/ \E err \in BOOLEAN : StoreAnswersStartup(err)
    \/ \E a \in 1..MaxAttempts, err \in BOOLEAN : StoreAnswersReload(a, err)
    \/ StartupLoadHistory
    \/ \E a \in 1..MaxAttempts : ReloadSettles(a)
    \/ HandleTextAnalyze
    \/ \E a \in 1..MaxAttempts, r \in AnalysisReplies : TextAnalysisSettles(a, r)
    \/ ScanNext

SpecHistory == InitHistory /\ [][NextHistory]_vars

\* ------------------------------------------------------------------------
\* Specification of the two analysis handlers with every awaited call
\* settling: a file is selected, a food name is typed, the startup query
\* has been answered
\* ------------------------------------------------------------------------
InitLive ==
    /\ file = "f1"
    /\ imagePreview = DataUrl("f1")
    /\ searchText = << WS, WORD >>
    /\ loading = FALSE
    /\ loadingStep = NoStep
    /\ result = Null
    /\ history = << >>
    /\ readers = << >>
    /\ attempts = << >>
    /\ lastReturn = NoReturn
    /\ startupQuery = QIdle
    /\ store = << >>
    /\ alerts = 0
    /\ pText = << >>
    /\ pChunks = << >>
    /\ pOut = NoOut
    /\ pStored = Null
    /\ CameraOff
    /\ mediaSupported = TRUE

\* Scan Next followed by choosing the file again and its preview loading
ScanNextAndReselect ==
    /\ result # Null
    /\ result' = Null
    /\ file' = "f1"
    /\ imagePreview' = DataUrl("f1")
    /\ UNCHANGED << searchText, loading, loadingStep, history, readers,
                    attempts, lastReturn, startupQuery, store, alerts,
                    parseVars, camVars >>

NextLive ==
    \/ HandleAnalyze
    \/ \E a \in 1..MaxAttempts, ok \in BOOLEAN : ReadFileSettles(a, ok)
    \/ \E a \in 1..MaxAttempts, r \in IdentifyReplies : IdentifySettles(a, r)
    \/ \E a \in 1..MaxAttempts, r \in AnalysisReplies : AnalysisSettles(a, r)
    \/ \E a \in 1..MaxAttempts, ok \in BOOLEAN : InsertSettles(a, ok)
    \/ \E a \in 1..MaxAttempts, err \in BOOLEAN : StoreAnswersReload(a, err)
    \/ \E a \in 1..MaxAttempts : ReloadSettles(a)
    \/ HandleTextAnalyze
    \/ \E a \in 1..MaxAttempts, r \in AnalysisReplies : TextAnalysisSettles(a, r)
    \/ ScanNextAndReselect

\* the awaited call of attempt a settles, by resolving or by rejecting; an
\* attempt awaits one call at a time
CallSettles(a) ==
    \/ \E ok \in BOOLEAN : ReadFileSettles(a, ok)
    \/ \E r \in IdentifyReplies : IdentifySettles(a, r)
    \/ \E r \in AnalysisReplies : AnalysisSettles(a, r)
    \/ \E ok \in BOOLEAN : InsertSettles(a, ok)
    \/ \E err \in BOOLEAN : StoreAnswersReload(a, err)
    \/ ReloadSettles(a)
    \/ \E r \in AnalysisReplies : TextAnalysisSettles(a, r)

SpecLive ==
    /\ InitLive
    /\ [][NextLive]_vars
    /\ \A a \in 1..MaxAttempts : WF_vars(CallSettles(a))

\* ------------------------------------------------------------------------
\* Specification of the parse: the record each handler builds from a reply,
\* for every text of at most MaxLen lexemes and every list of at most
\* MaxChunks grounding chunks
\* ------------------------------------------------------------------------
InitParse ==
    /\ file = NoFile
    /\ imagePreview = NoPreview
    /\ searchText = << >>
    /\ loading = FALSE
    /\ loadingStep = NoStep
    /\ result = Null
    /\ history = << >>
    /\ readers = << >>
    /\ attempts = << >>
    /\ lastReturn = NoReturn
    /\ startupQuery = QSent
    /\ store = << >>
    /\ alerts = 0
    /\ \/ pText \in Texts /\ pChunks = << >>
       \/ pText = << WORD, SENTINEL, OBJFULL >> /\ pChunks \in ChunkLists
    /\ pOut = NoOut
    /\ pStored = Null
    /\ CameraOff
    /\ mediaSupported = TRUE

\* the record of handleAnalyze for the reply text pText with chunks pChunks
ApplyAnalyzeParse ==
    /\ pOut = NoOut
    /\ pOut' = [pipeline |-> "image",
                rec |-> NewAnalysis(<< WORD >>, AnalyzeParse(pText),
                                    DataUrl("f1"), SourcesOf(pChunks))]
    /\ UNCHANGED << file, imagePreview, searchText, loading, loadingStep,
                    result, history, readers, attempts, lastReturn,
                    startupQuery, store, alerts, pText, pChunks, pStored, camVars >>

\* the record of handleTextAnalyze for the reply text pText with chunks
\* pChunks
ApplyTextParse ==
    /\ pOut = NoOut
    /\ pOut' = [pipeline |-> "text",
                rec |-> NewAnalysis(<< WORD >>, TextParse(pText), NoImage, << >>)]
    /\ UNCHANGED << file, imagePreview, searchText, loading, loadingStep,
                    result, history, readers, attempts, lastReturn,
                    startupQuery, store, alerts, pText, pChunks, pStored, camVars >>

\* the record of handleAnalyze is inserted, and loadHistory builds its entry
\* from the stored row
ApplyInsertAndLoad ==
    /\ pOut.pipeline = "image"
    /\ pStored = Null
    /\ ~PropertyAccessThrows(pOut.rec.macros)
    /\ pStored' = HistoryEntry(
                     StoredRow(
                       InsertPayload(pOut.rec.name,
                                     [summary |-> pOut.rec.summary,
                                      macros |-> pOut.rec.macros],
                                     pOut.rec.imageUrl), 1))
    /\ UNCHANGED << file, imagePreview, searchText, loading, loadingStep,
                    result, history, readers, attempts, lastReturn,
                    startupQuery, store, alerts, pText, pChunks, pOut, camVars >>

NextParse == ApplyAnalyzeParse \/ ApplyTextParse \/ ApplyInsertAndLoad

SpecParse == InitParse /\ [][NextParse]_vars

\* ------------------------------------------------------------------------
\* Properties
\* ------------------------------------------------------------------------
InFlight == { a \in 1..Len(attempts) : attempts[a].pc # "done" }

\* attempt a returns in this step
Returns(a) == attempts[a].pc # "done" /\ attempts'[a].pc = "done"

\* C1: while an analysis is in flight no other analysis is started, so at
\* most one analysis pipeline is in flight at any time.
C1_AtMostOneInFlight == Cardinality(InFlight) <= 1

\* C2: when an AI call of an attempt fails the attempt returns with exactly
\* one alert, result as it was, no insert, no history query and no further
\* AI call.
C2_AbortOnAIFailure ==
    [][\A a \in 1..Len(attempts) :
         (Returns(a) /\ lastReturn'.how = "aiFailed")
         => /\ alerts' = alerts + 1
            /\ lastReturn'.alerted = 1
            /\ result' = result
            /\ store' = store /\ history' = history
            /\ lastReturn'.inserts = 0 /\ lastReturn'.queries = 0
            /\ lastReturn'.aiCalls = attempts[a].aiCalls
            /\ Len(attempts') = Len(attempts)]_vars

C2_Witness ==
    /\ lastReturn.how = "aiFailed"
    /\ lastReturn.kind = "image" /\ lastReturn.aiCalls = 2
    /\ result # Null
    /\ alerts = 1

\* C3: an attempt whose grounded-analysis call resolved, whatever the text,
\* sets result, shows no alert, and (handleAnalyze) goes on to the insert.
C3_ParseNeverFailsAttempt ==
    lastReturn.resultSet
    => /\ lastReturn.alerted = 0
       /\ lastReturn.kind = "image" => lastReturn.inserts = 1

\* the text before the first sentinel, and the text after it
SentinelCount(t) == Cardinality({ i \in 1..Len(t) : t[i] = SENTINEL })
BeforeSentinel(t) == SubSeq(t, 1, IndexOfFrom(t, SENTINEL, 1) - 1)
AfterSentinel(t) == SubSeq(t, IndexOfFrom(t, SENTINEL, 1) + 1, Len(t))

\* C4: with exactly one sentinel in the reply, the summary is the trimmed
\* text before it and the macros are the JSON value of the text after it
\* with the fences removed, in both pipelines.
C4_OneSentinel ==
    (pOut.pipeline # "none" /\ SentinelCount(pText) = 1)
    => /\ pOut.rec.summary = Trim(BeforeSentinel(pText))
       /\ JSONParse(StripFences(AfterSentinel(pText))).ok
          => pOut.rec.macros = JSONParse(StripFences(AfterSentinel(pText))).val

C4_Witness ==
    /\ pOut.pipeline = "text"
    /\ SentinelCount(pText) = 1
    /\ pText[1] = WS
    /\ \E i \in 1..Len(pText) : pText[i] = FENCE
    /\ pOut.rec.macros.kind = "object"
    /\ pOut.rec.macros.fields["calories"] = Num(105)

\* C5: without a sentinel in the reply, the summary is the whole reply text,
\* untrimmed, and the four macros are 0, in both pipelines.
C5_NoSentinel ==
    (pOut.pipeline # "none" /\ SentinelCount(pText) = 0)
    => /\ pOut.rec.summary = pText
       /\ pOut.rec.macros.kind = "object"
       /\ DOMAIN pOut.rec.macros.fields = MacroKeys
       /\ \A k \in MacroKeys : pOut.rec.macros.fields[k] = Num(0)

C5_Witness ==
    /\ pOut.pipeline = "image"
    /\ SentinelCount(pText) = 0
    /\ Len(pText) >= 2
    /\ pText[1] = WS
    /\ pOut.rec.summary = pText

\* C6: with a sentinel and an unparsable block after it, protein, fat and
\* carbs are 0 and calories is the integer after the Calories label of the
\* reply, 0 without one, in both pipelines.
C6_CaloriesRecovered ==
    (/\ pOut.pipeline # "none"
     /\ SentinelCount(pText) >= 1
     /\ ~JSONParse(StripFences(Split(pText, SENTINEL)[2])).ok)
    => /\ pOut.rec.macros.kind = "object"
       /\ DOMAIN pOut.rec.macros.fields = MacroKeys
       /\ \A k \in {"protein", "fat", "carbs"} :
             pOut.rec.macros.fields[k] = Num(0)
       /\ pOut.rec.macros.fields["calories"] =
             IF CalMatch(pText).found THEN Num(CalMatch(pText).n) ELSE Num(0)

WellFormedMacros(m) ==
    /\ m.kind = "object"
    /\ DOMAIN m.fields = MacroKeys
    /\ \A k \in MacroKeys : m.fields[k].t = "number" /\ m.fields[k].n >= 0

\* C7: the macros of a result that an analysis produced have the four
\* fields, each a non-negative number.
C7_MacrosWellFormed ==
    (result.kind = "record" /\ result.id = 0) => WellFormedMacros(result.macros)

\* the identification resolved without a usable text
NoUsableText(r) ==
    \/ r.shape \in {"noCandidates", "noTextPart"}
    \/ r.shape = "text" /\ \A i \in 1..Len(r.text) : r.text[i] = WS

\* C8: after an identification that resolved without a candidate, without a
\* text part, or with an empty or blank text, the food name is "Unknown
\* food" and the grounded-analysis call has been issued with it.
C8_UnknownFoodFallback ==
    \A a \in 1..Len(attempts) :
       (/\ attempts[a].kind = "image"
        /\ attempts[a].pc = "research"
        /\ NoUsableText(attempts[a].identifyResponse))
       => /\ attempts[a].foodName = UNKNOWNFOOD
          /\ attempts[a].aiCalls = 2

C8_Witness ==
    \E a \in 1..Len(attempts) :
       /\ attempts[a].kind = "image"
       /\ attempts[a].pc = "research"
       /\ attempts[a].identifyResponse = TextReply(<< WS >>, << >>)
       /\ attempts[a].foodName = UNKNOWNFOOD
       /\ loadingStep = Step("Analyzing ...", UNKNOWNFOOD)

\* C9: when the insert reports an error there is no alert, result and
\* history stay as they are, no history query is issued, and loading
\* becomes false.
C9_SaveErrorSwallowed ==
    [][\A a \in 1..Len(attempts) :
         (attempts[a].pc = "insert" /\ attempts'[a].pc # "insert"
          /\ store' = store)
         => /\ alerts' = alerts
            /\ result' = result
            /\ history' = history
            /\ attempts'[a].pc = "done"
            /\ lastReturn'.queries = 0 /\ lastReturn'.alerted = 0
            /\ loading' = FALSE]_vars

C9_Witness ==
    /\ lastReturn.how = "saveError"
    /\ result.kind = "record" /\ result.id = 0
    /\ ~loading
    /\ alerts = 0
    /\ history = << >>

\* C10: every analysis that completes successfully, from an image or from a
\* typed food name, has issued an insert of its record before it ends.
C10_SuccessIsInserted ==
    (lastReturn.resultSet /\ lastReturn.alerted = 0) => lastReturn.inserts >= 1

\* C11: the entry loadHistory builds from the row of an inserted record has
\* the name, summary, image reference and four macro values of the record
\* that was set as result.
C11_RoundTrip ==
    pStored # Null
    => /\ pStored.name = pOut.rec.name
       /\ pStored.summary = pOut.rec.summary
       /\ pStored.imageUrl = pOut.rec.imageUrl
       /\ \A k \in MacroKeys :
             GetField(pStored.macros, k) = GetField(pOut.rec.macros, k)

AllStreamsStopped == \A s \in 1..Len(stops) : stops[s] >= 1

\* C13: after a capture completes, after the user closes the camera, and
\* after the component is torn down, no acquired stream is left with
\* unstopped tracks.
C13_ReleasedOnCaptureCloseTeardown ==
    [][(\/ \E k \in 1..Len(captures) :
             captures[k].pc = "blob" /\ captures'[k].pc = "done"
        \/ cameraActive /\ ~cameraActive'
        \/ mounted /\ ~mounted')
       => AllStreamsStopped']_vars

\* C14: no stream has its tracks stopped more than once, and no second
\* stream is acquired while an acquired stream is still unstopped.
C14_OneStreamStoppedOnce ==
    /\ \A s \in 1..Len(stops) : stops[s] <= 1
    /\ Cardinality({s \in 1..Len(stops) : stops[s] = 0}) <= 1

\* C15: a startCamera invocation that ended by showing an alert has called
\* neither setStream nor setCameraActive.
C15_AlertMeansNoStateChange ==
    \A c \in 1..Len(camCalls) : camCalls[c].alerted => ~camCalls[c].didSet

\* C16: a step that puts a stored entry into result (a click on a history
\* entry) sets result to exactly an entry of history, and leaves history,
\* file, imagePreview, loading, every attempt (so no AI call is issued), the
\* table and the pending queries unchanged.
C16_HistoryClickFrame ==
    [][(result' # result /\ result'.kind = "record" /\ result'.id # 0)
       => /\ \E i \in 1..Len(history) : result' = history[i]
          /\ UNCHANGED << history, file, imagePreview, loading, loadingStep,
                          attempts, store, startupQuery, alerts >>]_vars

\* a stored entry is displayed while an attempt is still loading and a file
\* is selected
C16_Witness ==
    /\ result.kind = "record"
    /\ result.id # 0
    /\ loading
    /\ file # NoFile

\* C17: with every awaited call settling, every started attempt returns, and
\* the step in which it returns leaves loading false and loadingStep empty,
\* the attempt having set result or shown an alert.
C17_AttemptsEnd ==
    /\ \A a \in 1..MaxAttempts :
          (a \in InFlight) ~> (a \in 1..Len(attempts) /\ attempts[a] = Gone)
    /\ [][\A a \in 1..Len(attempts) :
            Returns(a) => /\ loading' = FALSE
                          /\ loadingStep' = NoStep
                          /\ \/ lastReturn'.resultSet
                             \/ lastReturn'.alerted >= 1]_vars

\* both kinds of end have happened: an image attempt ended with an alert and
\* no result, and a later attempt ended having set result without an alert
C17_Witness ==
    /\ Len(attempts) = 2
    /\ InFlight = {}
    /\ alerts = 1
    /\ lastReturn.resultSet /\ lastReturn.alerted = 0
    /\ ~loading /\ loadingStep = NoStep

\* what attempt a has done after this step: its record, or the summary it
\* leaves as it returns
After(a) == IF Returns(a) THEN lastReturn' ELSE attempts'[a]

\* the calls of image attempt a counted against its position: nothing before
\* the file is read, one AI call while identifying, two while researching,
\* result set and one insert while inserting, one query while reloading
PhaseCounts(a) ==
    LET at == attempts[a]
    IN  at.kind = "image" =>
          /\ at.pc = "read" => /\ at.aiCalls = 0 /\ ~at.resultSet
                               /\ at.inserts = 0 /\ at.queries = 0
          /\ at.pc = "identify" => /\ at.aiCalls = 1 /\ ~at.resultSet
                                   /\ at.inserts = 0 /\ at.queries = 0
          /\ at.pc = "research" => /\ at.aiCalls = 2 /\ ~at.resultSet
                                   /\ at.inserts = 0 /\ at.queries = 0
                                   /\ at.identifyResponse.shape # "error"
          /\ at.pc = "insert" => /\ at.aiCalls = 2 /\ at.resultSet
                                 /\ at.inserts = 1 /\ at.queries = 0
          /\ at.pc = "reload" => /\ at.aiCalls = 2 /\ at.resultSet
                                 /\ at.inserts = 1 /\ at.queries = 1

\* the order of one step of image attempt a: each call is issued by the step
\* in which the call before it settled
CallOrder(a) ==
    LET at == attempts[a]
        af == After(a)
    IN  at.kind = "image" =>
          /\ af.aiCalls > at.aiCalls =>
                \/ at.pc = "read" /\ af.pc = "identify"
                \/ /\ at.pc = "identify" /\ af.pc = "research"
                   /\ af.identifyResponse.shape # "error"
          /\ (af.resultSet /\ ~at.resultSet) =>
                /\ at.pc = "research"
                /\ result'.kind = "record" /\ result'.id = 0
          /\ af.inserts > at.inserts =>
                /\ at.pc = "research" /\ af.pc = "insert" /\ af.resultSet
          /\ af.queries > at.queries =>
                /\ at.pc = "insert" /\ af.pc = "reload"
                /\ Len(store') = Len(store) + 1
          /\ at.pc # af.pc =>
                << at.pc, af.pc >> \in
                   { << "read", "identify" >>, << "identify", "research" >>,
                     << "research", "insert" >>, << "insert", "reload" >>,
                     << "read", "done" >>, << "identify", "done" >>,
                     << "research", "done" >>, << "insert", "done" >>,
                     << "reload", "done" >> }

\* C18 as stated: the calls of an image attempt keep the fixed order, and
\* the attempt returns with a result on display or with an alert shown.
C18_OrderEndsDisplaying ==
    [][\A a \in 1..Len(attempts) :
         /\ PhaseCounts(a)
         /\ CallOrder(a)
         /\ (attempts[a].kind = "image" /\ Returns(a))
            => (result' # Null \/ lastReturn'.alerted >= 1)]_vars

\* C18: the calls of an image attempt keep the fixed order, and the attempt
\* returns having set result or having shown an alert.
C18_OrderEndsSetOrAlert ==
    [][\A a \in 1..Len(attempts) :
         /\ PhaseCounts(a)
         /\ CallOrder(a)
         /\ (attempts[a].kind = "image" /\ Returns(a))
            => (lastReturn'.resultSet \/ lastReturn'.alerted >= 1)]_vars

\* an image attempt went through both AI calls, the insert and the re-query
\* and returned, and result is no longer on display
C18_Witness ==
    /\ lastReturn.kind = "image"
    /\ lastReturn.how = "saved"
    /\ lastReturn.aiCalls = 2 /\ lastReturn.inserts = 1 /\ lastReturn.queries = 1
    /\ result = Null
    /\ alerts = 0

\* the attempts whose history query is issued in this step
QueriesIssued ==
    { a \in 1..Len(attempts') :
        /\ attempts'[a].query.st = "sent"
        /\ a \in 1..Len(attempts) => attempts[a].query.st # "sent" }

WebObjects(chunks) ==
    LET withWeb == SelectSeq(chunks, LAMBDA c : c.hasWeb)
    IN  [i \in 1..Len(withWeb) |->
            [uri |-> withWeb[i].uri, title |-> withWeb[i].title]]

\* C20: the record either handler builds from a grounded-analysis reply has
\* as sources the web objects of the reply's grounding chunks, in order,
\* leaving out only the chunks without a web object.
C20_SourcesAreWebObjects ==
    pOut.pipeline \in { "image", "text" }
    => pOut.rec.sources = WebObjects(pChunks)

CallOutstanding ==
    { a \in 1..Len(attempts) :
        attempts[a].pc \in { "identify", "research", "insert", "reload" } }

\* C22: in every reachable state loading is true while a network call of an
\* analysis attempt is outstanding.
C22_LoadingWhileCallPending ==
    CallOutstanding # {} => loading

\* Start Analysis is rendered and handleAnalyze would pass its guard
AnalysisCanStart ==
    /\ result = Null
    /\ ~loading
    /\ file # NoFile
    /\ imagePreview # NoPreview

\* the insert of image attempt a carries the preview of the file that the
\* attempt sent to the identification call
InsertsPreviewOfSentFile(a) ==
    (attempts[a].kind = "image" /\ attempts[a].pc = "insert")
    => attempts[a].payload.image_url = DataUrl(attempts[a].file)

\* C23: whenever an image analysis can start, imagePreview is the preview of
\* file, and the image_url of every record being inserted is the preview of
\* the file that was sent to the identification call.
C23_PreviewIsOfFile ==
    /\ AnalysisCanStart => imagePreview = DataUrl(file)
    /\ \A a \in 1..Len(attempts) : InsertsPreviewOfSentFile(a)

\* C24: once an attempt whose insert succeeded has returned, no attempt is
\* in flight and the startup query has been handled, history is the mapped
\* newest HISTORYLIMIT rows of the table.
C24_HistoryIsNewestRows ==
    (lastReturn.how = "saved" /\ InFlight = {} /\ startupQuery.st = "idle")
    => history = MapHistory(SelectRecent(store))

\* the text between the first and the second sentinel
BetweenSentinels(t) == BeforeSentinel(AfterSentinel(t))

\* C25: with two or more sentinels in the reply, the summary is the trimmed
\* text before the first sentinel, and the structured parse reads only the
\* text between the first and the second sentinel: when that text parses the
\* macros are its value, and when it does not handleTextAnalyze keeps the
\* zero macros, whatever follows the second sentinel.
C25_SecondSegmentOnly ==
    (pOut.pipeline # "none" /\ SentinelCount(pText) >= 2)
    => LET p == JSONParse(Trim(StripFences(BetweenSentinels(pText))))
       IN  /\ pOut.rec.summary = Trim(BeforeSentinel(pText))
           /\ p.ok => pOut.rec.macros = p.val
           /\ (~p.ok /\ pOut.pipeline = "text") => pOut.rec.macros = ZeroMacros

\* a well-formed block between two sentinels and another block after the
\* second: the macros are those of the first block
C25_Witness ==
    /\ pOut.pipeline = "image"
    /\ pText = << SENTINEL, OBJFULL, SENTINEL, OBJNEG >>
    /\ pOut.rec.macros.kind = "object"
    /\ pOut.rec.macros.fields["calories"] = Num(105)
====
